---- MODULE Spec2Model ----
(***************************************************************************)
(* Model of gui/dpd/Capture.py (ODR-DabMod DPD capture): one Capture       *)
(* session talking to a DPD sample server.                                 *)
(*                                                                         *)
(* Amplitudes are exact integers in units of 1/700 of full scale, so that  *)
(* 0.02, 1/28 (= 0.05/1.4), 0.05, 0.07 (= 0.05*1.4), 0.08 and 1.0 are the  *)
(* integers 14, 25, 35, 49, 56 and 700.  A complex sample is <<re, im>>.   *)
(* A quotient (a median, a timestamp) is a pair <<num, den>>, den > 0;     *)
(* <<0, 0>> is NaN.  Floating-point rounding is not modelled.              *)
(***************************************************************************)
EXTENDS Integers, Sequences, FiniteSets, TLC

VARIABLES
    accumulated_bins,   \* self.accumulated_bins: bin index -> sequence of <<tx, rx>>
    op,                 \* the method of the session that returned last
    ret,                \* what it returned, or the exception it raised
    call                \* what the last get_samples() did: stages entered, socket, reads

vars == <<accumulated_bins, op, ret, call>>

-----------------------------------------------------------------------------
(* Capture.__init__ *)

binning_start == 0
binning_end == 700
binning_n_bins == 4
binning_n_per_bin == 2
target_median == 35
sizeof_sample == 8
TicksPerSecond == 16384000

median_max == <<target_median * 14, 10>>
median_min == <<target_median * 10, 14>>

BinIndices == 0 .. (binning_n_bins - 1)

EmptyBins == [i \in BinIndices |-> <<>>]

-----------------------------------------------------------------------------
(* Arithmetic the code takes from Python and numpy *)

Min(a, b) == IF a < b THEN a ELSE b
Max(a, b) == IF a < b THEN b ELSE a
AbsInt(a) == IF a < 0 THEN -a ELSE a

RECURSIVE Gcd(_, _)
Gcd(a, b) == IF b = 0 THEN a ELSE Gcd(b, a % b)

RECURSIVE Newton(_, _)
Newton(s, x) ==
    LET y == (x + (s \div x)) \div 2
    IN  IF y >= x THEN x ELSE Newton(s, y)

\* floor of the square root; exact on the sample values the server sends
ISqrt(s) == IF s < 2 THEN s ELSE Newton(s, s)

NaN == <<0, 0>>
IsNaN(q) == q[2] = 0

\* a < b on quotients; False when either side is NaN, as for IEEE floats
RatLt(a, b) == ~IsNaN(a) /\ ~IsNaN(b) /\ a[1] * b[2] < b[1] * a[2]

\* sig[:-k] and sig[k:] for k > 0, sig[:n] for any integer n
DropLast(s, k) == SubSeq(s, 1, Max(0, Len(s) - k))
DropFirst(s, k) == SubSeq(s, Min(k, Len(s)) + 1, Len(s))
Take(s, n) == IF n >= 0 THEN SubSeq(s, 1, Min(n, Len(s))) ELSE DropLast(s, -n)

\* F of the value of v, which is worked out once
With(v, F(_)) == CHOOSE r \in { F(x) : x \in {v} } : TRUE

\* np.abs of a complex sample
Abs(z) == ISqrt(z[1] * z[1] + z[2] * z[2])

AbsAll(frame) == [k \in 1 .. Len(frame) |-> Abs(frame[k])]

\* np.median: NaN for an empty array, the middle value, or the mean of the
\* two middle values
Median(mags) ==
    LET s == SortSeq(mags, LAMBDA a, b : a < b)
        n == Len(s)
    IN  IF n = 0 THEN NaN
        ELSE IF n % 2 = 1 THEN <<s[(n + 1) \div 2], 1>>
        ELSE <<s[n \div 2] + s[(n \div 2) + 1], 2>>

-----------------------------------------------------------------------------
(* The wire: a stream of bytes 0..255 *)

\* struct "=I": 4 bytes, least significant first (values below 2^31)
PackU32(v) ==
    << v % 256, (v \div 256) % 256, (v \div 65536) % 256, (v \div 16777216) % 256 >>

UnpackU32(b) == b[1] + 256 * b[2] + 65536 * b[3] + 16777216 * b[4]

\* one 32-bit float: sign bit and magnitude, as IEEE 754 lays them out; the
\* magnitude is the amplitude in units, not the IEEE exponent and mantissa
PackF32(x) ==
    LET m == PackU32(AbsInt(x))
    IN  IF x < 0 THEN <<m[1], m[2], m[3], m[4] + 128>> ELSE m

UnpackF32(b) ==
    LET m == UnpackU32(<<b[1], b[2], b[3], b[4] % 128>>)
    IN  IF b[4] >= 128 THEN -m ELSE m

RECURSIVE PackSamples(_)
PackSamples(frame) ==
    IF frame = <<>> THEN <<>>
    ELSE PackF32(frame[1][1]) \o PackF32(frame[1][2]) \o PackSamples(Tail(frame))

\* np.fromstring(bytes, dtype=np.complex64) of a whole number of samples
FromString(bytes) ==
    [k \in 1 .. (Len(bytes) \div sizeof_sample) |->
        << UnpackF32(SubSeq(bytes, sizeof_sample * (k - 1) + 1, sizeof_sample * (k - 1) + 4)),
           UnpackF32(SubSeq(bytes, sizeof_sample * (k - 1) + 5, sizeof_sample * k)) >>]

\* Capture._recv_exact on a socket that still has the bytes `avail` to deliver,
\* at most `chunk` per recv(), and then either is closed by the peer ("close":
\* recv() returns b'') or stays silent ("stall": recv() raises socket.timeout)
RECURSIVE RecvLoop(_, _, _, _, _)
RecvLoop(avail, num_bytes, chunk, eof, bufs) ==
    IF num_bytes > 0
    THEN LET b == Take(avail, Min(num_bytes, chunk))
         IN  IF Len(b) = 0
             THEN [data |-> bufs, rest |-> avail, timeout |-> (eof = "stall")]
             ELSE RecvLoop(DropFirst(avail, Len(b)), num_bytes - Len(b), chunk, eof,
                           bufs \o b)
    ELSE [data |-> bufs, rest |-> avail, timeout |-> FALSE]

_recv_exact(avail, num_bytes, chunk, eof) == RecvLoop(avail, num_bytes, chunk, eof, <<>>)

\* tx_second + tx_pps / 16384000.0
Timestamp(second, pps) == <<second * TicksPerSecond + pps, TicksPerSecond>>

-----------------------------------------------------------------------------
(* Capture.receive_tcp *)

num_samples_to_request == 4

\* How receive_tcp ends when it does not return: the exception, the socket
\* left as it is (no close() is executed on these paths)
Raised(e, sent, reads) ==
    [err |-> e, sock |-> "open", connects |-> 1, sent |-> sent, reads |-> reads,
     txframe |-> <<>>, tx_ts |-> NaN, rxframe |-> <<>>, rx_ts |-> NaN]

ReadFrame_requested(avail, num_samps, chunk, eof) ==
    LET r == _recv_exact(avail, num_samples_to_request * sizeof_sample, chunk, eof)
    IN  [read |-> <<<<num_samples_to_request * sizeof_sample, Len(r.data)>>>>,
         rest |-> r.rest,
         err |-> IF r.timeout THEN "socket.timeout"
                 ELSE IF Len(r.data) % sizeof_sample # 0 THEN "ValueError: fromstring"
                 ELSE "none",
         frame |-> FromString(r.data)]

\* One payload: nothing is read when num_samps is 0, else num_samps * 8 bytes
\* go through np.fromstring, which refuses a size that is no multiple of 8
ReadFrame(avail, num_samps, chunk, eof) ==
    IF num_samps > 0
    THEN LET r == _recv_exact(avail, num_samps * sizeof_sample, chunk, eof)
         IN  [read |-> <<<<num_samps * sizeof_sample, Len(r.data)>>>>,
              rest |-> r.rest,
              err |-> IF r.timeout THEN "socket.timeout"
                      ELSE IF Len(r.data) % sizeof_sample # 0 THEN "ValueError: fromstring"
                      ELSE "none",
              frame |-> FromString(r.data)]
    ELSE [read |-> <<>>, rest |-> avail, err |-> "none", frame |-> <<>>]

\* reply.conn: how connect() ends; reply.stream: the bytes the server sends
\* after the request; reply.chunk: the most one recv() delivers; reply.eof:
\* what follows the stream
receive_tcp(reply) ==
    IF reply.conn # "ok" THEN Raised(reply.conn, <<>>, <<>>)
    ELSE
    LET sent == <<1>> \o PackU32(num_samples_to_request)
        h1 == _recv_exact(reply.stream, 12, reply.chunk, reply.eof)
        r1 == <<<<12, Len(h1.data)>>>>
    IN
    IF h1.timeout THEN Raised("socket.timeout", sent, r1)
    ELSE IF Len(h1.data) # 12 THEN Raised("struct.error", sent, r1)
    ELSE
    LET num_samps == UnpackU32(SubSeq(h1.data, 1, 4))
        tx_second == UnpackU32(SubSeq(h1.data, 5, 8))
        tx_pps == UnpackU32(SubSeq(h1.data, 9, 12))
        f1 == ReadFrame(h1.rest, num_samps, reply.chunk, reply.eof)
        r2 == r1 \o f1.read
    IN
    IF f1.err # "none" THEN Raised(f1.err, sent, r2)
    ELSE
    LET h2 == _recv_exact(f1.rest, 8, reply.chunk, reply.eof)
        r3 == r2 \o <<<<8, Len(h2.data)>>>>
    IN
    IF h2.timeout THEN Raised("socket.timeout", sent, r3)
    ELSE IF Len(h2.data) # 8 THEN Raised("struct.error", sent, r3)
    ELSE
    LET rx_second == UnpackU32(SubSeq(h2.data, 1, 4))
        rx_pps == UnpackU32(SubSeq(h2.data, 5, 8))
        f2 == ReadFrame(h2.rest, num_samps, reply.chunk, reply.eof)
        r4 == r3 \o f2.read
    IN
    IF f2.err # "none" THEN Raised(f2.err, sent, r4)
    ELSE [err |-> "none", sock |-> "closed", connects |-> 1, sent |-> sent, reads |-> r4,
          txframe |-> f1.frame, tx_ts |-> Timestamp(tx_second, tx_pps),
          rxframe |-> f2.frame, rx_ts |-> Timestamp(rx_second, rx_pps)]

-----------------------------------------------------------------------------
(* Normalisation in get_samples *)

TxGuard_closed(tx_median) ==
    IF ~RatLt(tx_median, median_max) THEN "TooHigh"
    ELSE IF ~RatLt(median_min, tx_median) THEN "TooLow"
    ELSE "ok"

\* The guard on the TX median: "median_max < tx_median", "tx_median < median_min"
TxGuard(tx_median) ==
    IF RatLt(median_max, tx_median) THEN "TooHigh"
    ELSE IF RatLt(tx_median, median_min) THEN "TooLow"
    ELSE "ok"

\* One sample of rxframe / rx_median * tx_median: the exact quotient
\* <<re, im, den>> in lowest terms.  den = 0 is the nan that a division by a
\* zero median leaves in every sample.
ScaleSample(z, tx_median, rx_median) ==
    LET num == tx_median[1] * rx_median[2]
        den == tx_median[2] * rx_median[1]
        re == z[1] * num
        im == z[2] * num
        g == Gcd(Gcd(AbsInt(re), AbsInt(im)), den)
    IN  IF den = 0 THEN <<0, 0, 0>>
        ELSE <<re \div g, im \div g, den \div g>>

ScaleFrame(rxframe, tx_median, rx_median) ==
    [k \in 1 .. Len(rxframe) |-> ScaleSample(rxframe[k], tx_median, rx_median)]

-----------------------------------------------------------------------------
(* align_samples *)

RECURSIVE GcdAll(_)
GcdAll(ints) == IF ints = <<>> THEN 0 ELSE Gcd(AbsInt(ints[1]), GcdAll(Tail(ints)))

RECURSIVE LcmAll(_)
LcmAll(ints) ==
    IF ints = <<>> THEN 1
    ELSE LET l == LcmAll(Tail(ints))
         IN  (ints[1] \div Gcd(ints[1], l)) * l

RECURSIVE SumTo(_, _)
SumTo(f, n) == IF n = 0 THEN 0 ELSE f[n] + SumTo(f, n - 1)

\* The squared magnitudes of signal.correlate(sig_rx, sig_tx), mode "full":
\* entry k (from 1) is the lag k - len(sig_tx), the sum over n of
\* sig_rx[n + lag] * conj(sig_tx[n]).  Both signals are first divided by a
\* positive factor of their own, which moves no maximum.
CorrelateAbs2(sig_rx, sig_tx) ==
    LET lt == Len(sig_tx)
        lr == Len(sig_rx)
        Scaled(d) == [j \in 1 .. lr |-> << sig_rx[j][1] * (d \div sig_rx[j][3]),
                                          sig_rx[j][2] * (d \div sig_rx[j][3]) >>]
        Parts(sig) == [j \in 1 .. 2 * Len(sig) |-> sig[(j + 1) \div 2][2 - (j % 2)]]
        Reduced(sig, g) == [j \in 1 .. Len(sig) |-> << sig[j][1] \div g, sig[j][2] \div g >>]
        Normal(sig) == With(Max(1, GcdAll(Parts(sig))), LAMBDA g : Reduced(sig, g))
        At(r, t, lag) ==
            With(<< SumTo([n \in 1 .. lt |->
                            IF n + lag >= 1 /\ n + lag <= lr
                            THEN r[n + lag][1] * t[n][1] + r[n + lag][2] * t[n][2]
                            ELSE 0], lt),
                    SumTo([n \in 1 .. lt |->
                            IF n + lag >= 1 /\ n + lag <= lr
                            THEN r[n + lag][2] * t[n][1] - r[n + lag][1] * t[n][2]
                            ELSE 0], lt) >>,
                 LAMBDA z : z[1] * z[1] + z[2] * z[2])
    IN  With(<< Normal(With(LcmAll([j \in 1 .. lr |-> sig_rx[j][3]]), Scaled)),
                Normal(sig_tx) >>,
             LAMBDA n : [k \in 1 .. (lt + lr - 1) |-> At(n[1], n[2], k - lt)])

\* np.argmax, counted from 0: the first index of the maximum
ArgMax(c) ==
    With(c, LAMBDA v :
        (CHOOSE k \in 1 .. Len(v) :
            /\ \A j \in 1 .. Len(v) : v[j] <= v[k]
            /\ \A j \in 1 .. (k - 1) : v[j] < v[k]) - 1)

MeasuredOffset_len(sig_tx, sig_rx) ==
    IF \E j \in 1 .. Len(sig_rx) : sig_rx[j][3] = 0
    THEN 0 - Len(sig_tx)
    ELSE ArgMax(CorrelateAbs2(sig_rx, sig_tx)) - Len(sig_tx)

\* off_meas.  A nan in sig_rx makes every correlation value nan, and the
\* argmax of an all-nan array is 0.
MeasuredOffset(sig_tx, sig_rx) ==
    IF \E j \in 1 .. Len(sig_rx) : sig_rx[j][3] = 0
    THEN 0 - Len(sig_tx) + 1
    ELSE ArgMax(CorrelateAbs2(sig_rx, sig_tx)) - Len(sig_tx) + 1

CoarseAlign_txonly(sig_tx, sig_rx) ==
    With(MeasuredOffset(sig_tx, sig_rx), LAMBDA off_meas :
        LET off == AbsInt(off_meas)
            tx1 == IF off_meas > 0 THEN DropLast(sig_tx, off)
                   ELSE IF off_meas < 0 THEN DropFirst(sig_tx, off)
                   ELSE sig_tx
            rx1 == IF off_meas > 0 THEN DropFirst(sig_rx, off)
                   ELSE IF off_meas < 0 THEN DropLast(sig_rx, off)
                   ELSE sig_rx
        IN  [off_meas |-> off_meas,
             tx |-> IF off % 2 = 1 THEN DropLast(tx1, 1) ELSE tx1,
             rx |-> rx1])

CoarseAlign_swapped(sig_tx, sig_rx) ==
    With(MeasuredOffset(sig_tx, sig_rx), LAMBDA off_meas :
        LET off == AbsInt(off_meas)
            tx1 == IF off_meas > 0 THEN DropFirst(sig_tx, off)
                   ELSE IF off_meas < 0 THEN DropLast(sig_tx, off)
                   ELSE sig_tx
            rx1 == IF off_meas > 0 THEN DropLast(sig_rx, off)
                   ELSE IF off_meas < 0 THEN DropFirst(sig_rx, off)
                   ELSE sig_rx
        IN  [off_meas |-> off_meas,
             tx |-> IF off % 2 = 1 THEN DropLast(tx1, 1) ELSE tx1,
             rx |-> IF off % 2 = 1 THEN DropLast(rx1, 1) ELSE rx1])

CoarseAlign_notrim(sig_tx, sig_rx) ==
    With(MeasuredOffset(sig_tx, sig_rx), LAMBDA off_meas :
        LET off == AbsInt(off_meas)
        IN  [off_meas |-> off_meas,
             tx |-> IF off_meas > 0 THEN DropLast(sig_tx, off)
                    ELSE IF off_meas < 0 THEN DropFirst(sig_tx, off)
                    ELSE sig_tx,
             rx |-> IF off_meas > 0 THEN DropFirst(sig_rx, off)
                    ELSE IF off_meas < 0 THEN DropLast(sig_rx, off)
                    ELSE sig_rx])

\* The coarse, sample-level part: both signals cropped by the measured offset
CoarseAlign(sig_tx, sig_rx) ==
    With(MeasuredOffset(sig_tx, sig_rx), LAMBDA off_meas :
        LET off == AbsInt(off_meas)
            tx1 == IF off_meas > 0 THEN DropLast(sig_tx, off)
                   ELSE IF off_meas < 0 THEN DropFirst(sig_tx, off)
                   ELSE sig_tx
            rx1 == IF off_meas > 0 THEN DropFirst(sig_rx, off)
                   ELSE IF off_meas < 0 THEN DropLast(sig_rx, off)
                   ELSE sig_rx
        IN  [off_meas |-> off_meas,
             tx |-> IF off % 2 = 1 THEN DropLast(tx1, 1) ELSE tx1,
             rx |-> IF off % 2 = 1 THEN DropLast(rx1, 1) ELSE rx1])

\* A phase rotation by q quarter turns
Rotate(z, q) ==
    IF q % 4 = 0 THEN z
    ELSE IF q % 4 = 1 THEN <<0 - z[2], z[1], z[3]>>
    ELSE IF q % 4 = 2 THEN <<0 - z[1], 0 - z[2], z[3]>>
    ELSE <<z[2], 0 - z[1], z[3]>>

\* sa.subsample_align followed by sa.phase_align (module Align).  Given two
\* equal-length, even-length, non-empty signals the result is sig_rx rotated,
\* of the same length.  An odd-length signal is refused.  Outside this
\* contract (lengths differ, or empty) fine.ok says whether an exception ends
\* it, and a result still has the length of sig_rx.
FineAlign(sig_rx, sig_tx, fine) ==
    LET within == Len(sig_rx) = Len(sig_tx) /\ Len(sig_rx) > 0
        ok == IF Len(sig_rx) % 2 = 1 THEN FALSE
              ELSE IF within THEN TRUE
              ELSE fine.ok
    IN  [err |-> IF ok THEN "none" ELSE "Align",
         rx |-> IF ok THEN [k \in 1 .. Len(sig_rx) |-> Rotate(sig_rx[k], fine.q)]
                ELSE <<>>]

\* align_samples: correlate() and argmax() refuse an empty signal
align_samples(sig_tx, sig_rx, fine) ==
    IF Len(sig_tx) = 0 \/ Len(sig_rx) = 0
    THEN [err |-> "ValueError: empty", off_meas |-> 0, tx |-> <<>>, rx |-> <<>>]
    ELSE With(CoarseAlign(sig_tx, sig_rx), LAMBDA c :
            With(FineAlign(c.rx, c.tx, fine), LAMBDA f :
                [err |-> f.err, off_meas |-> c.off_meas, tx |-> c.tx, rx |-> f.rx]))

-----------------------------------------------------------------------------
(* Capture._bin_and_accumulate *)

\* np.linspace(binning_start, binning_end, binning_n_bins)[i], as a quotient
BinEdge(i) ==
    << binning_start * (binning_n_bins - 1) + i * (binning_end - binning_start),
       binning_n_bins - 1 >>

InBin_closed(mag, i) == ~RatLt(<<mag, 1>>, BinEdge(i)) /\ ~RatLt(BinEdge(i + 1), <<mag, 1>>)

\* tx_start < txframe_abs and txframe_abs <= tx_end, for the i-th pair of edges
InBin(mag, i) == RatLt(BinEdge(i), <<mag, 1>>) /\ ~RatLt(BinEdge(i + 1), <<mag, 1>>)

\* the boolean mask `indices`
Indices(txframe, i) == [k \in 1 .. Len(txframe) |-> InBin(Abs(txframe[k]), i)]

Select_rev(frame, indices) ==
    LET F[k \in 0 .. Len(frame)] ==
            IF k = 0 THEN <<>>
            ELSE IF indices[k] THEN <<frame[k]>> \o F[k - 1]
            ELSE F[k - 1]
    IN  F[Len(frame)]

\* frame[indices] for a mask as long as the frame
RECURSIVE Select(_, _)
Select(frame, indices) ==
    IF frame = <<>> THEN <<>>
    ELSE IF indices[1] THEN <<frame[1]>> \o Select(Tail(frame), Tail(indices))
    ELSE Select(Tail(frame), Tail(indices))

\* np.concatenate((txsamples, rxsamples)).T: one row <<tx, rx>> per selected index
Pairs(txsamples, rxsamples) == [k \in 1 .. Len(txsamples) |-> <<txsamples[k], rxsamples[k]>>]

NumToAppend_all(missing_in_bin, available) == available

NumToAppend(missing_in_bin, available) == Min(missing_in_bin, available)

Extend_front(bin, binned_sample_pairs, num_to_append) ==
    Take(binned_sample_pairs, num_to_append) \o bin

\* np.concatenate((accumulated_bins[i], binned_sample_pairs[:num_to_append]))
Extend(bin, binned_sample_pairs, num_to_append) ==
    bin \o Take(binned_sample_pairs, num_to_append)

\* The loop over zip(bin_edges, bin_edges[1:]), from its i-th round on.  An
\* rxframe that is not as long as the mask makes rxframe[indices] raise
\* IndexError; the bins are then left as the rounds before it made them.
RECURSIVE BinLoop(_, _, _, _)
BinLoop(i, bins, txframe, rxframe) ==
    IF i > binning_n_bins - 2 THEN [err |-> "none", bins |-> bins]
    ELSE
    LET indices == Indices(txframe, i)
    IN
    IF Len(rxframe) # Len(indices) THEN [err |-> "IndexError", bins |-> bins]
    ELSE
    LET binned_sample_pairs == Pairs(Select(txframe, indices), Select(rxframe, indices))
        missing_in_bin == binning_n_per_bin - Len(bins[i])
        num_to_append == NumToAppend(missing_in_bin, Len(binned_sample_pairs))
    IN  BinLoop(i + 1,
                IF num_to_append # 0
                THEN [bins EXCEPT ![i] = Extend(bins[i], binned_sample_pairs, num_to_append)]
                ELSE bins,
                txframe, rxframe)

_bin_and_accumulate_fresh(bins, txframe, rxframe) == BinLoop(0, EmptyBins, txframe, rxframe)

_bin_and_accumulate(bins, txframe, rxframe) == BinLoop(0, bins, txframe, rxframe)

-----------------------------------------------------------------------------
(* Capture.get_samples *)

NoCall == [stages |-> <<>>, sock |-> "none", sent |-> <<>>, reads |-> <<>>, tx_median |-> NaN]

\* get_samples stopped by an exception before _bin_and_accumulate is called,
\* with the frames it then has in hand
Stopped(r, e, stages, tx_median, rxframe) ==
    [err |-> e, stages |-> stages, sock |-> r.sock, sent |-> r.sent, reads |-> r.reads,
     tx_median |-> tx_median, rx_median |-> NaN, tx_ts |-> NaN, rx_ts |-> NaN,
     txframe |-> r.txframe, rxframe |-> rxframe]

Acquire_alignfirst(reply, fine) ==
    LET r == receive_tcp(reply)
    IN
    IF r.err # "none" THEN Stopped(r, r.err, <<"receive_tcp">>, NaN, <<>>)
    ELSE
    LET a == align_samples(r.txframe, ScaleFrame(r.rxframe, <<1, 1>>, <<1, 1>>), fine)
    IN
    IF a.err # "none"
    THEN Stopped(r, a.err, <<"receive_tcp", "align_samples">>, NaN, <<>>)
    ELSE
    LET tx_median == Median(AbsAll(a.tx))
        guard == TxGuard(tx_median)
        rx_median == Median([k \in 1 .. Len(a.rx) |-> Abs(a.rx[k])])
        stages == <<"receive_tcp", "align_samples", "normalize">>
    IN
    IF guard # "ok" THEN Stopped(r, guard, stages, tx_median, <<>>)
    ELSE [err |-> "none", stages |-> stages, sock |-> r.sock, sent |-> r.sent,
          reads |-> r.reads, tx_median |-> tx_median, rx_median |-> rx_median,
          tx_ts |-> r.tx_ts, rx_ts |-> r.rx_ts, txframe |-> a.tx,
          rxframe |-> [k \in 1 .. Len(a.rx) |->
                         ScaleSample(a.rx[k], tx_median, rx_median)]]

\* get_samples up to the call of _bin_and_accumulate: receive_tcp, the guard
\* on the TX median, the rescaling of rxframe, align_samples.  None of it
\* reads or writes accumulated_bins.
Acquire(reply, fine) ==
    LET r == receive_tcp(reply)
    IN
    IF r.err # "none" THEN Stopped(r, r.err, <<"receive_tcp">>, NaN, <<>>)
    ELSE
    LET tx_median == Median(AbsAll(r.txframe))
        guard == TxGuard(tx_median)
    IN
    IF guard # "ok"
    THEN Stopped(r, guard, <<"receive_tcp", "normalize">>, tx_median, <<>>)
    ELSE
    LET rx_median == Median(AbsAll(r.rxframe))
        rxframe == ScaleFrame(r.rxframe, tx_median, rx_median)
        a == align_samples(r.txframe, rxframe, fine)
        stages == <<"receive_tcp", "normalize", "align_samples">>
    IN
    IF a.err # "none" THEN Stopped(r, a.err, stages, tx_median, rxframe)
    ELSE [err |-> "none", stages |-> stages, sock |-> r.sock, sent |-> r.sent,
          reads |-> r.reads, tx_median |-> tx_median, rx_median |-> rx_median,
          tx_ts |-> r.tx_ts, rx_ts |-> r.rx_ts, txframe |-> a.tx, rxframe |-> a.rx]

\* The state get_samples leaves when an exception ends it
Raise(bins, e, stages, p) ==
    [bins |-> bins,
     ret |-> [status |-> "error", err |-> e, tx_median |-> p.tx_median],
     call |-> [stages |-> stages, sock |-> p.sock, sent |-> p.sent, reads |-> p.reads,
               tx_median |-> p.tx_median]]

Accumulate_stored(bins, p) ==
    LET b == _bin_and_accumulate(bins, p.txframe, p.rxframe)
        stages == p.stages \o <<"_bin_and_accumulate">>
    IN
    IF b.err # "none" THEN Raise(b.bins, b.err, stages, p)
    ELSE IF b.bins = bins THEN Raise(bins, "NothingStored", stages, p)
    ELSE [bins |-> b.bins,
          ret |-> [status |-> "ok", txframe_aligned |-> p.txframe, tx_ts |-> p.tx_ts,
                   tx_median |-> p.tx_median, rxframe_aligned |-> p.rxframe,
                   rx_ts |-> p.rx_ts, rx_median |-> p.rx_median],
          call |-> [stages |-> stages, sock |-> p.sock, sent |-> p.sent,
                    reads |-> p.reads, tx_median |-> p.tx_median]]

\* _bin_and_accumulate on the aligned frames, and the returned tuple
Accumulate(bins, p) ==
    LET b == _bin_and_accumulate(bins, p.txframe, p.rxframe)
        stages == p.stages \o <<"_bin_and_accumulate">>
    IN
    IF b.err # "none" THEN Raise(b.bins, b.err, stages, p)
    ELSE [bins |-> b.bins,
          ret |-> [status |-> "ok", txframe_aligned |-> p.txframe, tx_ts |-> p.tx_ts,
                   tx_median |-> p.tx_median, rxframe_aligned |-> p.rxframe,
                   rx_ts |-> p.rx_ts, rx_median |-> p.rx_median],
          call |-> [stages |-> stages, sock |-> p.sock, sent |-> p.sent,
                    reads |-> p.reads, tx_median |-> p.tx_median]]

Finish_binfirst(bins, p) ==
    IF p.err # "none"
    THEN Raise(_bin_and_accumulate(bins, p.txframe, p.rxframe).bins, p.err, p.stages, p)
    ELSE Accumulate(bins, p)

\* The rest of get_samples: an exception so far ends the call, else
\* _bin_and_accumulate is called
Finish(bins, p) ==
    IF p.err # "none" THEN Raise(bins, p.err, p.stages, p)
    ELSE Accumulate(bins, p)

get_samples(bins, reply, fine) == Finish(bins, Acquire(reply, fine))

-----------------------------------------------------------------------------
(* Capture.bin_histogram, Capture.pointcloud_png *)

\* [b.shape[0] for b in self.accumulated_bins]
bin_histogram(bins) == [j \in 1 .. binning_n_bins |-> Len(bins[j - 1])]

\* "if b:" on an array of two or more elements raises ValueError; an empty
\* array counts as False.  With every bin empty the figure is drawn and saved.
pointcloud_png(bins) ==
    IF \E i \in BinIndices : Len(bins[i]) > 0
    THEN [status |-> "error", err |-> "ValueError: truth value"]
    ELSE [status |-> "ok", png |-> "Captured and Binned Samples"]

-----------------------------------------------------------------------------
(* The DPD server: what one connection may be answered with *)

Z0 == <<0, 0>>
A == <<35, 0>>
Ai == <<0, 35>>
B == <<70, 0>>
Top == <<700, 0>>
Over == <<525, 700>>

\* TX medians 0.02, 0.05/1.4, 0.05, 0.05*1.4 and 0.08
GuardFrames == { <<<<m, 0>>>> : m \in {14, 25, 35, 49, 56} }

TxFrames ==
    GuardFrames \cup { <<>>, <<Z0, B>>, <<A, Ai>>, <<Z0, A, Ai, Over>>, <<A, Ai, A, Top>> }

\* The feedback: the TX signal at 4/5 of its amplitude (or none of it), d samples late
Gains == {4, 0}
Delays == {-1, 0, 1}

Feedback(tx, gain, d) ==
    [k \in 1 .. Len(tx) |->
        IF k - d >= 1 /\ k - d <= Len(tx)
        THEN << (tx[k - d][1] * gain) \div 5, (tx[k - d][2] * gain) \div 5 >>
        ELSE Z0]

TxTime == <<1, 0>>
RxTime == <<1, 8192000>>

Stream(tx, rx) ==
    PackU32(Len(tx)) \o PackU32(TxTime[1]) \o PackU32(TxTime[2]) \o PackSamples(tx)
    \o PackU32(RxTime[1]) \o PackU32(RxTime[2]) \o PackSamples(rx)

FullReplies ==
    { [conn |-> "ok", stream |-> Stream(tx, Feedback(tx, g, d)), chunk |-> 4096,
       eof |-> "close"] :
        tx \in TxFrames, g \in Gains, d \in Delays }

\* Streams that end early, delivered 5 bytes at a time.  Of <<A, Ai>>: inside
\* and after each header, inside a sample, between two samples.  Of the
\* 4-sample frame: after each whole RX sample.
CutReplies ==
    { [conn |-> "ok", stream |-> Take(Stream(<<A, Ai>>, Feedback(<<A, Ai>>, 4, 0)), n),
       chunk |-> 5, eof |-> e] :
        n \in {0, 5, 12, 16, 20, 28, 32, 36, 40, 44}, e \in {"close", "stall"} }
    \cup
    { [conn |-> "ok",
       stream |-> Take(Stream(<<Z0, A, Ai, Over>>, Feedback(<<Z0, A, Ai, Over>>, 4, 0)), n),
       chunk |-> 5, eof |-> "close"] :
        n \in {60, 68, 76} }

NoReplies ==
    { [conn |-> c, stream |-> <<>>, chunk |-> 5, eof |-> "close"] :
        c \in {"ConnectionRefusedError", "socket.timeout"} }

ServerReplies == FullReplies \cup CutReplies \cup NoReplies

FineChoices == [ok : BOOLEAN, q : {1}]

\* What get_samples can have in hand when it comes to _bin_and_accumulate
Acquired == { Acquire(reply, fine) : reply \in ServerReplies, fine \in FineChoices }

-----------------------------------------------------------------------------
(* The session *)

Init ==
    /\ accumulated_bins = EmptyBins
    /\ op = "__init__"
    /\ ret = [status |-> "none"]
    /\ call = NoCall

Capture_get_samples ==
    \E p \in Acquired :
        LET o == Finish(accumulated_bins, p)
        IN  /\ accumulated_bins' = o.bins
            /\ op' = "get_samples"
            /\ ret' = o.ret
            /\ call' = o.call

Capture_bin_histogram_reset ==
    /\ op' = "bin_histogram"
    /\ ret' = [status |-> "ok", counts |-> bin_histogram(accumulated_bins)]
    /\ call' = NoCall
    /\ accumulated_bins' = EmptyBins

Capture_bin_histogram ==
    /\ op' = "bin_histogram"
    /\ ret' = [status |-> "ok", counts |-> bin_histogram(accumulated_bins)]
    /\ call' = NoCall
    /\ UNCHANGED accumulated_bins

Capture_pointcloud_png ==
    /\ op' = "pointcloud_png"
    /\ ret' = pointcloud_png(accumulated_bins)
    /\ call' = NoCall
    /\ UNCHANGED accumulated_bins

Next ==
    \/ Capture_get_samples
    \/ Capture_bin_histogram
    \/ Capture_pointcloud_png

Spec == Init /\ [][Next]_vars

-----------------------------------------------------------------------------
(* align_samples on its own: every pair of short signals *)

MaxAlignLen == 3

AlignSamples == {Z0, A, Ai}

RECURSIVE Signals(_)
Signals(n) ==
    IF n = 0 THEN { <<>> }
    ELSE { Append(sig, z) : sig \in Signals(n - 1), z \in AlignSamples }

\* a complex64 array as the quotient rxframe / rx_median * tx_median of 1
AsQuotients(sig) == [k \in 1 .. Len(sig) |-> <<sig[k][1], sig[k][2], 1>>]

\* Signals of equal length, and sig_rx one sample short of sig_tx
AlignInputs ==
    UNION { { [sig_tx |-> t, sig_rx |-> AsQuotients(r)] : t \in Signals(n), r \in Signals(n) } :
                n \in 0 .. MaxAlignLen }
    \cup
    UNION { { [sig_tx |-> t, sig_rx |-> AsQuotients(DropLast(t, 1))] : t \in Signals(n) } :
                n \in 1 .. MaxAlignLen }

InitAlign ==
    /\ accumulated_bins = EmptyBins
    /\ op = "__init__"
    /\ ret = [status |-> "none"]
    /\ call \in AlignInputs

\* What align_samples(sig_tx, sig_rx) does with one input: coarse is what
\* lines 46-59 leave in sig_tx and sig_rx
AlignOutcome(in, fine) ==
    With(align_samples(in.sig_tx, in.sig_rx, fine), LAMBDA a :
        LET raised == Len(in.sig_tx) = 0 \/ Len(in.sig_rx) = 0
        IN  [status |-> IF a.err = "none" THEN "ok" ELSE "error",
             err |-> a.err,
             coarse |-> IF raised THEN [off_meas |-> 0, tx |-> <<>>, rx |-> <<>>]
                        ELSE CoarseAlign(in.sig_tx, in.sig_rx),
             reached_fine |-> ~raised,
             sig_tx |-> a.tx,
             sig_rx |-> a.rx])

\* The outcomes of all the calls, each with its arguments
AlignOutcomes ==
    { [args |-> in, ret |-> AlignOutcome(in, fine)] : in \in AlignInputs, fine \in FineChoices }

Call_align_samples ==
    /\ op = "__init__"
    /\ \E o \in AlignOutcomes : o.args = call /\ ret' = o.ret
    /\ op' = "align_samples"
    /\ UNCHANGED <<accumulated_bins, call>>

NextAlign == Call_align_samples

SpecAlign == InitAlign /\ [][NextAlign]_vars

-----------------------------------------------------------------------------
(* receive_tcp on its own: one call against each reply of the server *)

\* The replies of the server, also delivered a byte or 7 bytes at a time
ReceiveReplies ==
    ServerReplies \cup { [reply EXCEPT !.chunk = c] : reply \in ServerReplies, c \in {1, 7} }

ReceiveOutcomes == { [args |-> reply, ret |-> receive_tcp(reply)] : reply \in ReceiveReplies }

InitReceive ==
    /\ accumulated_bins = EmptyBins
    /\ op = "__init__"
    /\ ret = [status |-> "none"]
    /\ call \in ReceiveReplies

Call_receive_tcp ==
    /\ op = "__init__"
    /\ \E o \in ReceiveOutcomes : o.args = call /\ ret' = o.ret
    /\ op' = "receive_tcp"
    /\ UNCHANGED <<accumulated_bins, call>>

NextReceive == Call_receive_tcp

SpecReceive == InitReceive /\ [][NextReceive]_vars

-----------------------------------------------------------------------------
(* _bin_and_accumulate called from two threads on one Capture.  Here call[t]
   is the frame of thread t's call in progress, op says whether the caller
   lets the calls overlap, and ret[i] counts the pairs the writes to bin i have
   appended. *)

Threads == {1, 2}
MaxCalls == 2

\* aligned frames a caller may pass
ThreadFrames ==
    { [tx |-> <<A>>, rx |-> AsQuotients(<<A>>)],
      [tx |-> <<Ai, Top>>, rx |-> AsQuotients(<<Ai, Top>>)] }

Idle == [pc |-> "idle", i |-> 0, tx |-> <<>>, rx |-> <<>>, num_to_append |-> 0,
         bin |-> <<>>, calls |-> 0]

InitThreads ==
    /\ accumulated_bins = EmptyBins
    /\ op \in {"serialized", "concurrent"}
    /\ ret = [i \in BinIndices |-> 0]
    /\ call = [t \in Threads |-> Idle]

CanStart_always(t) == TRUE

\* A serializing caller starts a call only when no other call is in progress
CanStart(t) == op = "serialized" => \A u \in Threads \ {t} : call[u].pc = "idle"

\* The loop goes to its next round, or the call returns
NextRound(l) ==
    IF l.i + 1 > binning_n_bins - 2 THEN [l EXCEPT !.pc = "idle"]
    ELSE [l EXCEPT !.pc = "measure", !.i = l.i + 1]

\* binned_sample_pairs of round l.i
RoundPairs(l) ==
    Pairs(Select(l.tx, Indices(l.tx, l.i)), Select(l.rx, Indices(l.tx, l.i)))

\* thread t calls _bin_and_accumulate(txframe, rxframe)
Thread_call(t) ==
    /\ call[t].pc = "idle"
    /\ call[t].calls < MaxCalls
    /\ CanStart(t)
    /\ \E f \in ThreadFrames :
        call' = [call EXCEPT ![t] = [Idle EXCEPT !.pc = "measure", !.tx = f.tx, !.rx = f.rx,
                                                 !.calls = call[t].calls + 1]]
    /\ UNCHANGED <<accumulated_bins, op, ret>>

\* lines 218-227: the length of bin i is read and num_to_append is fixed
Thread_measure(t) ==
    /\ call[t].pc = "measure"
    /\ LET l == call[t]
           missing_in_bin == binning_n_per_bin - Len(accumulated_bins[l.i])
           num_to_append == NumToAppend(missing_in_bin, Len(RoundPairs(l)))
       IN  call' = [call EXCEPT ![t] =
                        IF num_to_append # 0
                        THEN [l EXCEPT !.pc = "read", !.num_to_append = num_to_append]
                        ELSE NextRound(l)]
    /\ UNCHANGED <<accumulated_bins, op, ret>>

\* line 230, right-hand side: bin i is read and extended
Thread_read(t) ==
    /\ call[t].pc = "read"
    /\ LET l == call[t]
       IN  call' = [call EXCEPT ![t] =
                        [l EXCEPT !.pc = "write",
                                  !.bin = Extend(accumulated_bins[l.i], RoundPairs(l),
                                                 l.num_to_append)]]
    /\ UNCHANGED <<accumulated_bins, op, ret>>

\* line 230, assignment: the extended bin is stored
Thread_write(t) ==
    /\ call[t].pc = "write"
    /\ LET l == call[t]
       IN  /\ accumulated_bins' = [accumulated_bins EXCEPT ![l.i] = l.bin]
           /\ ret' = [ret EXCEPT ![l.i] =
                        @ + Len(Take(RoundPairs(l), l.num_to_append))]
           /\ call' = [call EXCEPT ![t] = [NextRound(l) EXCEPT !.bin = <<>>,
                                                               !.num_to_append = 0]]
    /\ UNCHANGED op

NextThreads ==
    \E t \in Threads :
        \/ Thread_call(t)
        \/ Thread_measure(t)
        \/ Thread_read(t)
        \/ Thread_write(t)

SpecThreads == InitThreads /\ [][NextThreads]_vars

-----------------------------------------------------------------------------
(* Properties *)

IsPrefix(s, t) == Len(s) <= Len(t) /\ SubSeq(t, 1, Len(s)) = s

Captured == op = "get_samples"
Returned == Captured /\ ret.status = "ok"
Failed == Captured /\ ret.status = "error"

\* |tx| of a stored or returned sample, and its place among the bin edges,
\* written out from np.linspace(0.0, 1.0, binning_n_bins)
Magnitude(z) == Abs(z)
Inside(m, i) ==
    /\ i * (binning_end - binning_start) < (m - binning_start) * (binning_n_bins - 1)
    /\ (m - binning_start) * (binning_n_bins - 1) <= (i + 1) * (binning_end - binning_start)

\* The pairs of two frames that fall into interval i, in index order
Candidates(tx, rx, i) ==
    LET F[k \in 0 .. Len(tx)] ==
            IF k = 0 THEN <<>>
            ELSE IF Inside(Magnitude(tx[k]), i) THEN Append(F[k - 1], <<tx[k], rx[k]>>)
            ELSE F[k - 1]
    IN  F[Len(tx)]

\* The pairs the returned frames offer to bin i
Offered(i) == Candidates(ret.txframe_aligned, ret.rxframe_aligned, i)

Total(bins) == SumTo([j \in 1 .. binning_n_bins |-> Len(bins[j - 1])], binning_n_bins)

\* C1: after any sequence of get_samples calls, every bin holds at most
\* binning_n_per_bin pairs.
C1_BinCapacity == \A i \in BinIndices : Len(accumulated_bins[i]) <= binning_n_per_bin

\* a capture returned that offered a full bin a pair the bin did not take
C1_Witness ==
    /\ Returned
    /\ \E i \in BinIndices :
        /\ Len(accumulated_bins[i]) = binning_n_per_bin
        /\ Len(Offered(i)) > 0
        /\ Offered(i)[Len(Offered(i))] # accumulated_bins[i][binning_n_per_bin]

\* C2: every step leaves each bin's former contents as a prefix of its new
\* contents: nothing is removed or reordered.
C2_PrefixKept ==
    [][\A i \in BinIndices : IsPrefix(accumulated_bins[i], accumulated_bins'[i])]_vars

\* a bin that already held a pair took more pairs from the capture that returned
C2_Witness ==
    /\ Returned
    /\ \E i \in BinIndices : \E m \in 1 .. Len(Offered(i)) :
        /\ Len(accumulated_bins[i]) > m
        /\ SubSeq(accumulated_bins[i], Len(accumulated_bins[i]) - m + 1,
                  Len(accumulated_bins[i])) = Take(Offered(i), m)
        /\ accumulated_bins[i][1] # Offered(i)[1]

\* C3: a get_samples call that ends in an exception leaves every bin as it was.
C3_ErrorKeepsBins ==
    [][(op' = "get_samples" /\ ret'.status = "error")
        => accumulated_bins' = accumulated_bins]_vars

\* an exception raised inside _bin_and_accumulate, with pairs already stored
C3_Witness ==
    /\ Failed
    /\ ret.err = "IndexError"
    /\ \E i \in BinIndices : Len(accumulated_bins[i]) > 0

\* C4 (as claimed): when get_samples has ended, its socket is closed.
C4_SocketClosed == Captured => call.sock = "closed"

\* some read of the last capture got fewer bytes than it asked for
ShortRead == \E k \in 1 .. Len(call.reads) : call.reads[k][2] < call.reads[k][1]

\* C5 (as claimed): a capture with a short read ends in an exception of
\* receive_tcp; no later stage is given its frames.
C5_ShortReadIsError ==
    (Captured /\ ShortRead) => (ret.status = "error" /\ call.stages = <<"receive_tcp">>)

Received ==
    UNION { { Feedback(tx, g, d)[k] : k \in 1 .. Len(tx) } :
                tx \in TxFrames, g \in Gains, d \in Delays }

\* C7: the guard raises TooHigh exactly when tx_median > target_median * 1.4,
\* TooLow exactly when tx_median < target_median / 1.4, and otherwise (both
\* limits included) the capture goes on to rescale RX by tx_median / rx_median;
\* for target_median 0.05: 0.08 is too high, 0.02 too low, 0.05 passes.
C7_Guard ==
    /\ (Captured /\ Len(call.stages) >= 2) =>
        LET m == call.tx_median
            high == ~IsNaN(m) /\ m[1] * 10 > target_median * 14 * m[2]
            low == ~IsNaN(m) /\ m[1] * 14 < target_median * 10 * m[2]
        IN  /\ (ret.status = "error" /\ ret.err = "TooHigh") <=> high
            /\ (ret.status = "error" /\ ret.err = "TooLow") <=> low
            /\ (~high /\ ~low) => Len(call.stages) >= 3
    /\ Returned => \A k \in 1 .. Len(ret.rxframe_aligned) :
        \E z \in Received, f \in FineChoices :
            ret.rxframe_aligned[k] =
                Rotate(ScaleSample(z, ret.tx_median, ret.rx_median), f.q)
    /\ TxGuard(<<56, 1>>) = "TooHigh"
    /\ TxGuard(<<14, 1>>) = "TooLow"
    /\ TxGuard(<<35, 1>>) = "ok"
    /\ ScaleFrame(<<<<28, 0>>, <<0, 28>>>>, <<35, 1>>, <<28, 1>>) = <<<<35, 0, 1>>, <<0, 35, 1>>>>

\* a TX median on the upper limit of the band passed the guard
C7_Witness ==
    /\ Captured
    /\ call.tx_median = <<49, 1>>
    /\ Len(call.stages) >= 3

\* C8 (as claimed): bin_histogram returns binning_n_bins - 1 counts, the
\* lengths of the bins in order.
C8_HistogramPerInterval ==
    op = "bin_histogram" =>
        /\ Len(ret.counts) = binning_n_bins - 1
        /\ \A j \in 1 .. Len(ret.counts) : ret.counts[j] = Len(accumulated_bins[j - 1])

\* C9: every pair stored in bin i has a TX magnitude above edge i and at most
\* edge i+1; so no pair of magnitude 0 or above binning_end is stored, no pair
\* is in two bins, and a capture of magnitudes 0.05 only changes the bin of 0.05.
C9_BinIntervals ==
    /\ [](\A i \in BinIndices : \A k \in 1 .. Len(accumulated_bins[i]) :
            LET m == Magnitude(accumulated_bins[i][k][1])
            IN  /\ Inside(m, i)
                /\ i < binning_n_bins - 1
                /\ m > 0
                /\ m <= binning_end
                /\ \A j \in BinIndices \ {i} : \A l \in 1 .. Len(accumulated_bins[j]) :
                      accumulated_bins[j][l] # accumulated_bins[i][k])
    /\ [][(/\ op' = "get_samples"
           /\ ret'.status = "ok"
           /\ \A k \in 1 .. Len(ret'.txframe_aligned) :
                Magnitude(ret'.txframe_aligned[k]) = target_median)
          => \A i \in BinIndices :
                accumulated_bins'[i] # accumulated_bins[i] => Inside(target_median, i)]_vars

\* a returned capture held a sample of magnitude 0 and one above binning_end,
\* and stored others
C9_Witness ==
    /\ Returned
    /\ \E k \in 1 .. Len(ret.txframe_aligned) : Magnitude(ret.txframe_aligned[k]) = 0
    /\ \E k \in 1 .. Len(ret.txframe_aligned) :
          Magnitude(ret.txframe_aligned[k]) > binning_end
    /\ \E i \in BinIndices : Len(Offered(i)) > 0 /\ Len(accumulated_bins[i]) > 0

\* C10: the sum of the bin lengths never decreases, and is at most
\* (binning_n_bins - 1) * binning_n_per_bin.
C10_TotalMonotoneBounded ==
    /\ [](Total(accumulated_bins) <= (binning_n_bins - 1) * binning_n_per_bin)
    /\ [][Total(accumulated_bins') >= Total(accumulated_bins)]_vars

\* a capture returned with one bin full and another partly filled
C10_Witness ==
    /\ Returned
    /\ \E i, j \in BinIndices :
        /\ Len(accumulated_bins[i]) = binning_n_per_bin
        /\ Len(accumulated_bins[j]) > 0
        /\ Len(accumulated_bins[j]) < binning_n_per_bin
        /\ Len(Offered(j)) > 0

\* The aligned frames get_samples can hand to _bin_and_accumulate
Binnable == { p \in Acquired : p.err = "none" /\ Len(p.txframe) = Len(p.rxframe) }

\* C11: a bin that is full is left as it is by every step, and binning the same
\* frames a second time leaves every bin as the first time left it when the
\* frames held at least as many pairs for the bin as it had room for.
C11_OverflowIdempotent ==
    /\ [][\A i \in BinIndices :
            Len(accumulated_bins[i]) = binning_n_per_bin
                => accumulated_bins'[i] = accumulated_bins[i]]_vars
    /\ [](\A p \in Binnable :
            LET once == _bin_and_accumulate(accumulated_bins, p.txframe, p.rxframe).bins
                twice == _bin_and_accumulate(once, p.txframe, p.rxframe).bins
            IN  \A i \in BinIndices :
                    Len(Candidates(p.txframe, p.rxframe, i))
                        >= binning_n_per_bin - Len(accumulated_bins[i])
                    => /\ twice[i] = once[i]
                       /\ Len(accumulated_bins[i]) = binning_n_per_bin
                            => once[i] = accumulated_bins[i])

\* the capture before the last filled a bin, and the last offered it pairs again
C11_Witness ==
    /\ Returned
    /\ \E i \in BinIndices :
        /\ Len(accumulated_bins[i]) = binning_n_per_bin
        /\ Len(Offered(i)) >= 2
        /\ Take(Offered(i), 1) = SubSeq(accumulated_bins[i], binning_n_per_bin, binning_n_per_bin)
        /\ Offered(i)[2] # accumulated_bins[i][binning_n_per_bin]

\* align_samples was called and came to the end of its coarse part
Coarse == op = "align_samples" /\ ret.reached_fine
SameLength == Len(call.sig_tx) = Len(call.sig_rx)

\* C12: for signals of equal length, the coarse part of align_samples leaves
\* sig_tx and sig_rx of equal length, whatever offset it measured.
C12_EqualLengths ==
    (op = "align_samples" /\ SameLength /\ Len(call.sig_tx) > 0)
        => /\ ret.reached_fine
           /\ Len(ret.coarse.tx) = Len(ret.coarse.rx)
           /\ ret.status = "ok" => Len(ret.sig_tx) = Len(ret.sig_rx)

\* signals of equal length were cropped by an odd offset and something is left
C12_Witness ==
    /\ Coarse
    /\ SameLength
    /\ ret.coarse.off_meas \in {-1, 1}
    /\ Len(ret.coarse.tx) > 0
    /\ Len(ret.coarse.tx) < Len(call.sig_tx)

Identical == call.sig_rx = AsQuotients(call.sig_tx)
AllZero(sig) == \A k \in 1 .. Len(sig) : sig[k] = Z0

\* C13 (as claimed): when sig_rx is sig_tx, the measured offset is 0 and nothing
\* is cropped, for every sig_tx.
C13_IdenticalNoCrop ==
    (Coarse /\ Identical)
        => /\ ret.coarse.off_meas = 0
           /\ ret.coarse.tx = call.sig_tx
           /\ ret.coarse.rx = call.sig_rx

\* C13 (amended): when sig_rx is sig_tx and sig_tx has a sample that is not 0,
\* the measured offset is 0 and nothing is cropped; when all of sig_tx is 0 the
\* measured offset is -(len(sig_tx) - 1).
C13_IdenticalNonzeroNoCrop ==
    (Coarse /\ Identical)
        => IF AllZero(call.sig_tx)
           THEN ret.coarse.off_meas = 0 - (Len(call.sig_tx) - 1)
           ELSE /\ ret.coarse.off_meas = 0
                /\ ret.coarse.tx = call.sig_tx
                /\ ret.coarse.rx = call.sig_rx

\* a signal of the greatest length, with zero and nonzero samples, aligned with itself
C13_Witness ==
    /\ Coarse
    /\ Identical
    /\ Len(call.sig_tx) = MaxAlignLen
    /\ ~AllZero(call.sig_tx)
    /\ \E k \in 1 .. Len(call.sig_tx) : call.sig_tx[k] = Z0
    /\ ret.coarse.tx = call.sig_tx

\* sig d samples late, zeros shifted in, the length kept
Shift(sig, d) ==
    [k \in 1 .. Len(sig) |-> IF k - d >= 1 /\ k - d <= Len(sig) THEN sig[k - d] ELSE Z0]

Shifted(d) == call.sig_rx = AsQuotients(Shift(call.sig_tx, d))

\* no sample of sig_tx other than 0 is shifted out
Kept(d) ==
    \A k \in 1 .. Len(call.sig_tx) :
        call.sig_tx[k] # Z0 => (k + d >= 1 /\ k + d <= Len(call.sig_tx))

Offsets == (0 - MaxAlignLen) .. MaxAlignLen

\* C14 (as claimed): when sig_rx is sig_tx shifted by d, both results have the
\* length len(sig_tx) - |d| and sample k of one is sample k of the other.
C14_ShiftMaximalOverlap ==
    \A d \in Offsets :
        (Coarse /\ Shifted(d) /\ AbsInt(d) < Len(call.sig_tx))
            => /\ Len(ret.coarse.tx) = Len(call.sig_tx) - AbsInt(d)
               /\ ret.coarse.rx = AsQuotients(ret.coarse.tx)

\* C14 (amended): when sig_rx is sig_tx shifted by d, sig_tx is not all 0 and
\* no nonzero sample is shifted out, the measured offset is d, both results have
\* the length len(sig_tx) - |d| - (|d| mod 2), and sample k of one is sample k
\* of the other.
C14_ShiftRecovered ==
    \A d \in Offsets :
        (Coarse /\ Shifted(d) /\ Kept(d) /\ ~AllZero(call.sig_tx))
            => /\ ret.coarse.off_meas = d
               /\ Len(ret.coarse.tx) = Len(call.sig_tx) - AbsInt(d) - (AbsInt(d) % 2)
               /\ ret.coarse.rx = AsQuotients(ret.coarse.tx)

\* a signal shifted by two samples, with a nonzero sample left after the crop
C14_Witness ==
    /\ Coarse
    /\ \E d \in {-2, 2} : Shifted(d) /\ Kept(d)
    /\ Len(call.sig_tx) > 2
    /\ ~AllZero(ret.coarse.tx)

\* C19: for signals of equal length len, an odd measured offset drops one more
\* sample from the end of both signals and an even one none, so both are left
\* with len - |off| - (|off| mod 2) samples; if len is even, what is handed to
\* the fine alignment has even length.
C19_ParityTrim ==
    (Coarse /\ SameLength) =>
        LET len == Len(call.sig_tx)
            off == AbsInt(ret.coarse.off_meas)
            first == IF ret.coarse.off_meas < 0 THEN off ELSE 0
            left == len - off - (off % 2)
        IN  /\ off < len
            /\ ret.coarse.tx = SubSeq(call.sig_tx, first + 1, first + left)
            /\ ret.coarse.rx = SubSeq(call.sig_rx, off - first + 1, off - first + left)
            /\ Len(ret.coarse.tx) = left
            /\ Len(ret.coarse.rx) = left
            /\ len % 2 = 0 => (Len(ret.coarse.tx) % 2 = 0 /\ Len(ret.coarse.rx) % 2 = 0)

\* signals of even length with an odd measured offset
C19_Witness ==
    /\ Coarse
    /\ SameLength
    /\ Len(call.sig_tx) % 2 = 0
    /\ AbsInt(ret.coarse.off_meas) % 2 = 1
    /\ ~AllZero(call.sig_tx)

\* C15: one call of receive_tcp connects once; it sends the byte 1 and the
\* 4 bytes of num_samples_to_request before it reads; it asks for 12 bytes,
\* then 8 bytes per sample of the count in the header it received, then 8
\* bytes, then the same payload size again, and asks for no payload when that
\* count is 0.
C15_Protocol ==
    op = "receive_tcp" =>
        /\ ret.connects = 1
        /\ call.conn # "ok" => (ret.err = call.conn /\ ret.sent = <<>> /\ ret.reads = <<>>)
        /\ call.conn = "ok" =>
            /\ ret.sent = <<1, num_samples_to_request, 0, 0, 0>>
            /\ Len(ret.reads) >= 1
            /\ ret.reads[1][1] = 12
            /\ Len(ret.reads) > 1 => ret.reads[1][2] = 12
            /\ \A k \in 1 .. Len(ret.reads) : ret.reads[k][2] <= ret.reads[k][1]
            /\ ret.reads[1][2] = 12 =>
                LET count == call.stream[1] + 256 * call.stream[2]
                                + 65536 * call.stream[3] + 16777216 * call.stream[4]
                    plan == IF count > 0 THEN <<12, 8 * count, 8, 8 * count>> ELSE <<12, 8>>
                IN  /\ IsPrefix([k \in 1 .. Len(ret.reads) |-> ret.reads[k][1]], plan)
                    /\ ret.err = "none" => Len(ret.reads) = Len(plan)

\* all four reads were made, for a count that is not the count asked for
C15_Witness ==
    /\ op = "receive_tcp"
    /\ ret.err = "none"
    /\ Len(ret.reads) = 4
    /\ ret.reads[2][1] # 8 * num_samples_to_request
    /\ ret.reads[4][2] = ret.reads[4][1]

\* C16: what a capture returns or raises does not depend on the bins: for every
\* reply, the session in its present state and a session with empty bins get
\* the same result.
C16_ResultIndependentOfBins ==
    \A p \in Acquired :
        /\ Finish(accumulated_bins, p).ret = Finish(EmptyBins, p).ret
        /\ Finish(accumulated_bins, p).call = Finish(EmptyBins, p).call

\* a capture returned frames of which a session with empty bins would have
\* stored pairs that this session did not store
C16_Witness ==
    /\ Returned
    /\ \E i \in BinIndices :
        /\ Len(accumulated_bins[i]) = binning_n_per_bin
        /\ Len(Offered(i)) > 0
        /\ \A k \in 1 .. Len(accumulated_bins[i]) :
              accumulated_bins[i][k] # Offered(i)[1]
    /\ \E p \in Acquired :
        /\ Finish(EmptyBins, p).ret = ret
        /\ Finish(EmptyBins, p).bins # accumulated_bins

\* C17: a capture that returns appends to each bin i the first
\* min(binning_n_per_bin - len(bin i), number of candidates) candidates, the
\* candidates being the pairs <<tx[k], rx[k]>> with edge i < |tx[k]| <= edge i+1
\* in the order of k; the bin after the last edge gets nothing.
C17_AppendsFirstCandidates ==
    [][(op' = "get_samples" /\ ret'.status = "ok") =>
        \A i \in BinIndices :
            LET candidates == Candidates(ret'.txframe_aligned, ret'.rxframe_aligned, i)
                remaining == binning_n_per_bin - Len(accumulated_bins[i])
                n == IF remaining < Len(candidates) THEN remaining ELSE Len(candidates)
            IN  IF i < binning_n_bins - 1
                THEN accumulated_bins'[i] = accumulated_bins[i] \o SubSeq(candidates, 1, n)
                ELSE accumulated_bins'[i] = accumulated_bins[i]]_vars

\* an empty bin was filled by a capture that had more candidates than fit
C17_Witness ==
    /\ Returned
    /\ \E i \in BinIndices :
        /\ Len(Offered(i)) > binning_n_per_bin
        /\ accumulated_bins[i] = SubSeq(Offered(i), 1, binning_n_per_bin)
        /\ Offered(i)[1] # Offered(i)[2]

\* C18: the bins are empty when the session is made, and a step changes them
\* only if it is a get_samples call that went through _bin_and_accumulate and
\* returned; bin_histogram, pointcloud_png and captures that raise leave every
\* bin as it is, and no step empties a bin.
C18_OnlyAccumulateWrites ==
    /\ [](op = "__init__" => accumulated_bins = EmptyBins)
    /\ [][accumulated_bins' # accumulated_bins
            => /\ op' = "get_samples"
               /\ ret'.status = "ok"
               /\ call'.stages[Len(call'.stages)] = "_bin_and_accumulate"]_vars
    /\ [][op' \in {"bin_histogram", "pointcloud_png"}
            => accumulated_bins' = accumulated_bins]_vars
    /\ [][\A i \in BinIndices :
            Len(accumulated_bins[i]) > 0 => Len(accumulated_bins'[i]) > 0]_vars

\* the histogram of a session that has stored pairs in two bins was taken
C18_Witness ==
    /\ op = "bin_histogram"
    /\ \E j, k \in 1 .. Len(ret.counts) : j # k /\ ret.counts[j] > 0 /\ ret.counts[k] > 0
    /\ \A j \in 1 .. Len(ret.counts) : ret.counts[j] = Len(accumulated_bins[j - 1])

\* a bin holds more than binning_n_per_bin pairs
OverCapacity == \E i \in BinIndices : Len(accumulated_bins[i]) > binning_n_per_bin
\* a bin holds fewer pairs than were appended to it
PairLost == \E i \in BinIndices : Len(accumulated_bins[i]) < ret[i]

\* C20: when the caller lets no two calls of _bin_and_accumulate overlap, no bin
\* exceeds binning_n_per_bin and no appended pair is lost; such states are
\* reached only when calls overlap.
C20_SerializedSafe ==
    (OverCapacity \/ PairLost) => op = "concurrent"

\* two overlapping calls have left a bin over its capacity, with a pair lost
C20_Witness ==
    /\ op = "concurrent"
    /\ \E i \in BinIndices :
        /\ Len(accumulated_bins[i]) > binning_n_per_bin
        /\ Len(accumulated_bins[i]) < ret[i]
    /\ \A t \in Threads : call[t].pc = "idle"

====
